---- MODULE Spec2Model ----
(***************************************************************************)
(* The arithmetic agent of src/index.ts: a two-node state graph            *)
(* (llmCall, toolNode) over the state {messages, llmCalls}, the            *)
(* conditional edge shouldContinue, and the three registered tools.        *)
(* One invocation of the compiled graph is a process whose position is     *)
(* pc[i]; the suspension points are the awaits of the source (the model    *)
(* backend call of llmCall, each t.invoke of toolNode).                    *)
(***************************************************************************)
EXTENDS Integers, Sequences, FiniteSets, TLC

\* ------------------------------------------------------------------ bounds

\* Largest number of tool calls the model backend requests over one
\* invocation (all Assistant messages together).
MaxToolCalls == 3

\* The same bound for the runs with two concurrent invocations.
MaxToolCallsConc == 2

\* Longest log the edge resolver is probed with outside a graph run.
MaxProbeLen == 3

\* agent.invoke is called without a config: the executor's default
\* recursionLimit, the number of steps (node executions) one invocation may
\* take.
RecursionLimit == 25

\* The invocations of the compiled graph: main() makes one, a second caller
\* of agent.invoke is the concurrent one.
Invocations == {1, 2}

\* ---------------------------------------------------------------- messages

END == "__end__"

NoId == <<0, 0>>

\* The n-th identifier generated inside invocation i (uuid v4: never equal
\* to an identifier generated earlier or elsewhere).
Uuid(i, n) == <<i, n>>

\* JSON values of a tool call's arguments.
Num(n) == [isNumber |-> TRUE, v |-> n]

Str == [isNumber |-> FALSE, v |-> 0]

ToolCall(id, name, args) == [id |-> id, name |-> name, args |-> args]

HumanMessage(content) ==
    [type |-> "human", id |-> NoId, content |-> content,
     tool_calls |-> <<>>, tool_call_id |-> NoId, name |-> ""]

AIMessage(content, calls) ==
    [type |-> "ai", id |-> NoId, content |-> content,
     tool_calls |-> calls, tool_call_id |-> NoId, name |-> ""]

ToolMessage(content, name, callId) ==
    [type |-> "tool", id |-> NoId, content |-> content,
     tool_calls |-> <<>>, tool_call_id |-> callId, name |-> name]

\* AIMessage.isInstance
IsAIMessage(m) == m.type = "ai"

\* ------------------------------------------------------------------- tools

\* A JavaScript number that is the quotient of two integers: an integer
\* when the division is exact, a non-finite value when the divisor is 0,
\* otherwise the fraction in lowest terms.
RECURSIVE Gcd(_, _)
Gcd(a, b) == IF b = 0 THEN a ELSE Gcd(b, a % b)

Abs(a) == IF a < 0 THEN -a ELSE a

Int2Number(n) == [kind |-> "finite", num |-> n, den |-> 1]

\* The body of multiply pasted into add.
addPasted(a, b) == Int2Number(a * b)

add(a, b) == Int2Number(a + b)

multiply(a, b) == Int2Number(a * b)

divide(a, b) ==
    IF b = 0
    THEN [kind |-> (IF a = 0 THEN "NaN" ELSE "Infinity"), num |-> 0, den |-> 0]
    ELSE LET g == Gcd(Abs(a), Abs(b))
             s == IF b < 0 THEN -1 ELSE 1
         IN  [kind |-> "finite", num |-> s * (a \div g), den |-> Abs(b) \div g]

\* The registry: the names of toolsByName.
toolsByName == {"add", "multiply", "divide"}

\* z.object({a: z.number(), b: z.number()}): the arguments parse.
SchemaAccepts(args) == args[1].isNumber /\ args[2].isNumber

\* The tool body applied to parsed arguments.
RunTool(name, args) ==
    CASE name = "add"      -> add(args[1].v, args[2].v)
      [] name = "multiply" -> multiply(args[1].v, args[2].v)
      [] name = "divide"   -> divide(args[1].v, args[2].v)

\* The content of the ToolMessage: the tool's output serialised with
\* JSON.stringify (a non-finite number serialises to null; a non-integer
\* is written here as its fraction).
Stringify(x) ==
    IF x.kind # "finite" THEN "null"
    ELSE IF x.den = 1 THEN ToString(x.num)
    ELSE ToString(x.num) \o "/" \o ToString(x.den)

\* t.invoke(toolCall) when it completes: the ToolMessage answering the call.
Observation(toolCall) ==
    ToolMessage(Stringify(RunTool(toolCall.name, toolCall.args)),
                toolCall.name, toolCall.id)

\* ------------------------------------------------------------------- state

VARIABLES
    pc,        \* pc[i]: where invocation i stands (executor state and awaits)
    state,     \* state[i]: the shared State {messages, llmCalls} of invocation i
    update,    \* update[i]: the partial update merged last
    uuids,     \* uuids[i]: how many identifiers invocation i has generated
    toolCalls, \* toolNode's local: lastMessage.tool_calls ?? []
    idx,       \* toolNode's local: position of the for-of loop
    result,    \* toolNode's local: result
    inFlight,  \* toolNode: positions of the calls whose handler is running
    runs,      \* runs[i]: executions of each node that have completed
    returned,  \* returned[i]: what agent.invoke resolved with (<<>>: nothing)
    probe      \* the state shouldContinue is evaluated on outside a run,
               \* and the destination it gave (<<>>: not evaluated)

vars == <<pc, state, update, uuids, toolCalls, idx, result, inFlight,
         runs, returned, probe>>

\* messages.findLast(AIMessage.isInstance): the last Assistant message,
\* wherever it stands.
AtLastAI(messages) ==
    IF \E k \in 1..Len(messages) : IsAIMessage(messages[k])
    THEN <<messages[CHOOSE k \in 1..Len(messages) :
                       /\ IsAIMessage(messages[k])
                       /\ \A j \in (k + 1)..Len(messages) :
                              ~IsAIMessage(messages[j])]>>
    ELSE <<>>

\* Array.prototype.at(-1): the empty sequence stands for undefined.
AtLast(messages) ==
    IF Len(messages) = 0 THEN <<>> ELSE <<messages[Len(messages)]>>

\* An update without the llmCalls field carries <<>> there.
NoUpdate == [messages |-> <<>>, llmCalls |-> <<>>]

\* ---------------------------------------------------------- state container

\* The messages of an update, each message without an id given a fresh one
\* (the first step of the MessagesValue reducer); n identifiers are in use.
RECURSIVE AssignIds(_, _, _)
AssignIds(msgs, i, n) ==
    IF msgs = <<>> THEN <<>>
    ELSE IF Head(msgs).id = NoId
         THEN <<[Head(msgs) EXCEPT !.id = Uuid(i, n + 1)]>>
                  \o AssignIds(Tail(msgs), i, n + 1)
         ELSE <<Head(msgs)>> \o AssignIds(Tail(msgs), i, n)

RECURSIVE MissingIds(_)
MissingIds(msgs) ==
    IF msgs = <<>> THEN 0
    ELSE (IF Head(msgs).id = NoId THEN 1 ELSE 0) + MissingIds(Tail(msgs))

\* Position in left of the message with this id, 0 when there is none.
IndexOfId(left, id) ==
    IF \E k \in 1..Len(left) : left[k].id = id
    THEN CHOOSE k \in 1..Len(left) : left[k].id = id
    ELSE 0

\* The merge loop of the MessagesValue reducer: a message whose id is
\* already in the log replaces that entry, any other message is pushed.
RECURSIVE MergeById(_, _)
MergeById(left, right) ==
    IF right = <<>> THEN left
    ELSE LET m == Head(right)
             k == IndexOfId(left, m.id)
         IN  IF k # 0
             THEN MergeById([left EXCEPT ![k] = m], Tail(right))
             ELSE MergeById(Append(left, m), Tail(right))

\* A state field without a reducer: the update replaces the value.
MessagesLastValue(left, right, i, n) == AssignIds(right, i, n)

\* messages: MessagesValue.
MessagesReducer(left, right, i, n) == MergeById(left, AssignIds(right, i, n))

\* The reducer (x, y) => y.
LlmCallsLastValue(x, y) == y

\* llmCalls: reducer (x, y) => x + y.
LlmCallsReducer(x, y) == x + y

\* The executor's merge of a node's partial update into the State: each
\* field present in the update goes through its reducer.
Merge(s, u, i, n) ==
    [messages |-> MessagesReducer(s.messages, u.messages, i, n),
     llmCalls |-> IF u.llmCalls = <<>> THEN s.llmCalls
                  ELSE LlmCallsReducer(s.llmCalls, u.llmCalls[1])]

\* ------------------------------------------------------------ edge resolver

\* The resolver without .length: an empty tool_calls array is truthy.
shouldContinueTruthy(s) ==
    LET lastMessage == AtLast(s.messages)
    IN  IF lastMessage = <<>> \/ ~IsAIMessage(lastMessage[1]) THEN END
        ELSE "toolNode"

shouldContinue(s) ==
    LET lastMessage == AtLast(s.messages)
    IN  IF lastMessage = <<>> \/ ~IsAIMessage(lastMessage[1]) THEN END
        ELSE IF Len(lastMessage[1].tool_calls) # 0 THEN "toolNode"
        ELSE END

\* The edge table with addEdge("toolNode", END).
NextNodeToEnd(node, s) ==
    IF node = "llmCall" THEN shouldContinue(s) ELSE END

\* The edge table of agent: the conditional edge of llmCall is resolved on
\* the state handed in, toolNode has the fixed edge back to llmCall.
NextNode(node, s) ==
    IF node = "llmCall" THEN shouldContinue(s) ELSE "llmCall"

\* ----------------------------------------------------------------- executor

\* No node has run.
NoRuns == [llmCall |-> 0, toolNode |-> 0]

\* The steps an invocation has taken.
StepsTaken(r) == r.llmCall + r.toolNode

\* agent.invoke(input): a fresh State (llmCalls defaults to 0, the input
\* messages go through the reducer), the entry edge START -> llmCall.
InitialState(input, i) ==
    [messages |-> MessagesReducer(<<>>, input, i, 0), llmCalls |-> 0]

\* The input main() supplies.
MainInput == <<HumanMessage("Add 3 and 4 then multiply the result by 2")>>

Invoke(i) ==
    /\ pc[i] = "idle"
    /\ state' = [state EXCEPT ![i] = InitialState(MainInput, i)]
    /\ uuids' = [uuids EXCEPT ![i] = MissingIds(MainInput)]
    /\ pc' = [pc EXCEPT ![i] = "llmCall"]
    /\ runs' = [runs EXCEPT ![i] = NoRuns]
    /\ UNCHANGED <<update, toolCalls, idx, result, inFlight, returned, probe>>

\* One State instance kept by the compiled graph and shared by all of its
\* invocations.
NodeReturnsShared(i, node, u, n) ==
    LET merged == Merge(state[i], u, i, n)
        dest   == NextNode(node, merged)
        ran    == [runs[i] EXCEPT ![node] = runs[i][node] + 1]
    IN  /\ state' = [j \in Invocations |-> merged]
        /\ update' = [update EXCEPT ![i] = u]
        /\ uuids' = [uuids EXCEPT ![i] = n + MissingIds(u.messages)]
        /\ runs' = [runs EXCEPT ![i] = ran]
        /\ pc' = [pc EXCEPT ![i] =
                     IF dest = END THEN "done"
                     ELSE IF StepsTaken(ran) >= RecursionLimit THEN "failed"
                     ELSE dest]
        /\ returned' = [returned EXCEPT ![i] =
                           IF dest = END THEN <<merged>> ELSE <<>>]

\* The executor resolving the outgoing edge before it merges the update:
\* the resolver sees the State the node was started with.
NodeReturnsPreMerge(i, node, u, n) ==
    LET merged == Merge(state[i], u, i, n)
        dest   == NextNode(node, state[i])
        ran    == [runs[i] EXCEPT ![node] = runs[i][node] + 1]
    IN  /\ state' = [state EXCEPT ![i] = merged]
        /\ update' = [update EXCEPT ![i] = u]
        /\ uuids' = [uuids EXCEPT ![i] = n + MissingIds(u.messages)]
        /\ runs' = [runs EXCEPT ![i] = ran]
        /\ pc' = [pc EXCEPT ![i] =
                     IF dest = END THEN "done"
                     ELSE IF StepsTaken(ran) >= RecursionLimit THEN "failed"
                     ELSE dest]
        /\ returned' = [returned EXCEPT ![i] =
                           IF dest = END THEN <<merged>> ELSE <<>>]

\* A node has returned u: the executor merges it, resolves the outgoing
\* edge of the node and either resolves agent.invoke with the final State,
\* or runs on, or, with the recursion limit used up and a node still to
\* run, rejects agent.invoke (GraphRecursionError).
NodeReturns(i, node, u, n) ==
    LET merged == Merge(state[i], u, i, n)
        dest   == NextNode(node, merged)
        ran    == [runs[i] EXCEPT ![node] = runs[i][node] + 1]
    IN  /\ state' = [state EXCEPT ![i] = merged]
        /\ update' = [update EXCEPT ![i] = u]
        /\ uuids' = [uuids EXCEPT ![i] = n + MissingIds(u.messages)]
        /\ runs' = [runs EXCEPT ![i] = ran]
        /\ pc' = [pc EXCEPT ![i] =
                     IF dest = END THEN "done"
                     ELSE IF StepsTaken(ran) >= RecursionLimit THEN "failed"
                     ELSE dest]
        /\ returned' = [returned EXCEPT ![i] =
                           IF dest = END THEN <<merged>> ELSE <<>>]

\* A retry policy on the node: the executor runs llmCall again.
NodeThrowsRetry(i) ==
    /\ pc' = [pc EXCEPT ![i] = "llmCall"]
    /\ UNCHANGED <<state, update, uuids, runs, returned>>

\* A node has thrown: agent.invoke rejects, nothing is merged or returned.
NodeThrows(i) ==
    /\ pc' = [pc EXCEPT ![i] = "failed"]
    /\ UNCHANGED <<state, update, uuids, runs, returned>>

\* ------------------------------------------------------------ model backend

\* What the backend may ask for in one tool call: the three registered
\* tools on the numbers of main()'s prompt, a tool that is not registered,
\* and a registered tool with an argument that is not a number.
CallPool ==
    { [name |-> "add",      args |-> <<Num(3), Num(4)>>],
      [name |-> "multiply", args |-> <<Num(7), Num(2)>>],
      [name |-> "divide",   args |-> <<Num(14), Num(3)>>],
      [name |-> "subtract", args |-> <<Num(7), Num(1)>>],
      [name |-> "add",      args |-> <<Str, Num(4)>>] }

\* The pool of the runs with two concurrent invocations.
ConcPool ==
    { [name |-> "add",      args |-> <<Num(3), Num(4)>>],
      [name |-> "subtract", args |-> <<Num(7), Num(1)>>],
      [name |-> "add",      args |-> <<Str, Num(4)>>] }

\* The text of an Assistant message: empty beside tool calls, the answer
\* otherwise.
AssistantText(batch) == IF batch = <<>> THEN "7" ELSE ""

\* One id generated per response and given to all of its tool calls.
WithOneId(batch, i, n) ==
    [k \in 1..Len(batch) |->
        ToolCall(Uuid(i, n + 1), batch[k].name, batch[k].args)]

\* The tool calls of a response: ChatOllama gives each a fresh id.
WithIds(batch, i, n) ==
    [k \in 1..Len(batch) |->
        ToolCall(Uuid(i, n + k), batch[k].name, batch[k].args)]

\* Tool calls requested so far in a log.
RECURSIVE CountCalls(_)
CountCalls(messages) ==
    IF messages = <<>> THEN 0
    ELSE Len(Head(messages).tool_calls) + CountCalls(Tail(messages))

\* The batches the backend may still answer with.
Batches(pool, room) == UNION { [1..k -> pool] : k \in 0..room }

\* ------------------------------------------------------------------ llmCall

\* The response put into the update twice.
llmCallUpdateTwice(response) ==
    [messages |-> <<response, response>>, llmCalls |-> <<1>>]

\* The update llmCall returns for the backend's response.
llmCallUpdate(response) == [messages |-> <<response>>, llmCalls |-> <<1>>]

\* The executor starts llmCall, which sends the log to the backend and
\* awaits the response.
LlmCallStart(i) ==
    /\ pc[i] = "llmCall"
    /\ pc' = [pc EXCEPT ![i] = "llmAwait"]
    /\ UNCHANGED <<state, update, uuids, toolCalls, idx, result, inFlight,
                   runs, returned, probe>>

\* The backend responds with one Assistant message; llmCall returns.
LlmCallReturn(i, pool, budget) ==
    /\ pc[i] = "llmAwait"
    /\ \E batch \in Batches(pool, budget - CountCalls(state[i].messages)) :
          LET response == AIMessage(AssistantText(batch),
                                    WithIds(batch, i, uuids[i]))
          IN  NodeReturns(i, "llmCall", llmCallUpdate(response),
                          uuids[i] + Len(batch))
    /\ UNCHANGED <<toolCalls, idx, result, inFlight, probe>>

\* modelWithTools.invoke rejects: llmCall has no catch, the node throws.
LlmCallFail(i) ==
    /\ pc[i] = "llmAwait"
    /\ NodeThrows(i)
    /\ UNCHANGED <<toolCalls, idx, result, inFlight, probe>>

\* ----------------------------------------------------------------- toolNode

\* result.unshift(observation): the newest observation first.
PushFront(res, observation) == <<observation>> \o res

\* result.push(observation)
Push(res, observation) == Append(res, observation)

\* break in the place of continue: the loop ends at the first call whose
\* name is not registered.
BreakAt(k, calls) == Len(calls) + 1

\* continue: the loop goes on with the call after the k-th.
ContinueAt(k, calls) == k + 1

\* The executor starts toolNode: lines 86-92, up to the loop.
ToolNodeStart(i) ==
    /\ pc[i] = "toolNode"
    /\ LET lastMessage == AtLast(state[i].messages)
       IN  IF lastMessage = <<>> \/ ~IsAIMessage(lastMessage[1])
           THEN /\ NodeReturns(i, "toolNode",
                               [messages |-> <<>>, llmCalls |-> <<>>], uuids[i])
                /\ UNCHANGED <<toolCalls, idx, result>>
           ELSE /\ toolCalls' = [toolCalls EXCEPT ![i] = lastMessage[1].tool_calls]
                /\ idx' = [idx EXCEPT ![i] = 1]
                /\ result' = [result EXCEPT ![i] = <<>>]
                /\ pc' = [pc EXCEPT ![i] = "toolLoop"]
                /\ UNCHANGED <<state, update, uuids, runs, returned>>
    /\ UNCHANGED <<inFlight, probe>>

\* The loop without await before t.invoke(toolCall): the handler is
\* started and the loop goes on at once.
ToolLoopNoAwait(i) ==
    /\ pc[i] = "toolLoop"
    /\ IF idx[i] > Len(toolCalls[i])
       THEN /\ NodeReturns(i, "toolNode",
                           [messages |-> result[i], llmCalls |-> <<>>], uuids[i])
            /\ toolCalls' = [toolCalls EXCEPT ![i] = <<>>]
            /\ idx' = [idx EXCEPT ![i] = 0]
            /\ result' = [result EXCEPT ![i] = <<>>]
            /\ UNCHANGED inFlight
       ELSE /\ inFlight' = [inFlight EXCEPT ![i] =
                               IF toolCalls[i][idx[i]].name \in toolsByName
                               THEN inFlight[i] \cup {idx[i]} ELSE inFlight[i]]
            /\ idx' = [idx EXCEPT ![i] = idx[i] + 1]
            /\ UNCHANGED <<pc, state, update, uuids, toolCalls, result,
                           runs, returned>>
    /\ UNCHANGED probe

\* One turn of the for-of loop up to its await: the loop is over and the
\* node returns result; or the name is not in toolsByName and the call is
\* skipped; or the handler is invoked.
ToolLoop(i) ==
    /\ pc[i] = "toolLoop"
    /\ IF idx[i] > Len(toolCalls[i])
       THEN /\ NodeReturns(i, "toolNode",
                           [messages |-> result[i], llmCalls |-> <<>>], uuids[i])
            /\ toolCalls' = [toolCalls EXCEPT ![i] = <<>>]
            /\ idx' = [idx EXCEPT ![i] = 0]
            /\ result' = [result EXCEPT ![i] = <<>>]
            /\ UNCHANGED inFlight
       ELSE IF toolCalls[i][idx[i]].name \notin toolsByName
       THEN /\ idx' = [idx EXCEPT ![i] = ContinueAt(idx[i], toolCalls[i])]
            /\ UNCHANGED <<pc, state, update, uuids, toolCalls, result,
                           inFlight, runs, returned>>
       ELSE /\ inFlight' = [inFlight EXCEPT ![i] = inFlight[i] \cup {idx[i]}]
            /\ pc' = [pc EXCEPT ![i] = "toolAwait"]
            /\ UNCHANGED <<state, update, uuids, toolCalls, idx, result,
                           runs, returned>>
    /\ UNCHANGED probe

\* t.invoke settles: with arguments the schema accepts the observation is
\* pushed and the loop goes on; otherwise t.invoke rejects, and toolNode,
\* which has no catch, throws.
ToolReturn(i) ==
    /\ pc[i] = "toolAwait"
    /\ LET toolCall == toolCalls[i][idx[i]]
       IN  IF SchemaAccepts(toolCall.args)
           THEN /\ result' = [result EXCEPT ![i] =
                                 Push(result[i], Observation(toolCall))]
                /\ idx' = [idx EXCEPT ![i] = idx[i] + 1]
                /\ pc' = [pc EXCEPT ![i] = "toolLoop"]
                /\ UNCHANGED <<state, update, uuids, runs, returned>>
           ELSE /\ NodeThrows(i)
                /\ UNCHANGED <<idx, result>>
    /\ inFlight' = [inFlight EXCEPT ![i] = inFlight[i] \ {idx[i]}]
    /\ UNCHANGED <<toolCalls, probe>>

\* ------------------------------------------------- probing the edge resolver

\* The messages a log handed to shouldContinue directly may hold.
ProbeMessages ==
    { HumanMessage("q"),
      AIMessage("7", <<>>),
      AIMessage("", <<ToolCall(Uuid(1, 1), "add", <<Num(3), Num(4)>>)>>),
      AIMessage("", <<ToolCall(Uuid(1, 1), "subtract", <<Num(7), Num(1)>>),
                      ToolCall(Uuid(1, 2), "add", <<Num(3), Num(4)>>)>>),
      ToolMessage("7", "add", Uuid(1, 1)) }

ProbeLogs == UNION { [1..k -> ProbeMessages] : k \in 0..MaxProbeLen }

NoProbe == [s |-> [messages |-> <<>>, llmCalls |-> 0], dest |-> <<>>]

\* shouldContinue(state) is evaluated.
Resolve ==
    /\ probe.dest = <<>>
    /\ probe' = [probe EXCEPT !.dest = <<shouldContinue(probe.s)>>]
    /\ UNCHANGED <<pc, state, update, uuids, toolCalls, idx, result,
                   inFlight, runs, returned>>

\* ----------------------------------------------------------- specifications

Idle ==
    /\ pc = [i \in Invocations |-> "idle"]
    /\ state = [i \in Invocations |-> [messages |-> <<>>, llmCalls |-> 0]]
    /\ update = [i \in Invocations |-> NoUpdate]
    /\ uuids = [i \in Invocations |-> 0]
    /\ toolCalls = [i \in Invocations |-> <<>>]
    /\ idx = [i \in Invocations |-> 0]
    /\ result = [i \in Invocations |-> <<>>]
    /\ inFlight = [i \in Invocations |-> {}]
    /\ runs = [i \in Invocations |-> NoRuns]
    /\ returned = [i \in Invocations |-> <<>>]

Init == Idle /\ probe = NoProbe

Step(i, pool, budget) ==
    \/ Invoke(i)
    \/ LlmCallStart(i)
    \/ LlmCallReturn(i, pool, budget)
    \/ LlmCallFail(i)
    \/ ToolNodeStart(i)
    \/ ToolLoop(i)
    \/ ToolReturn(i)

\* main(): one invocation of agent.
Next == Step(1, CallPool, MaxToolCalls)

Spec == Init /\ [][Next]_vars

\* Two invocations of the compiled graph, their steps interleaved.
NextConc == \E i \in Invocations : Step(i, ConcPool, MaxToolCallsConc)

SpecConc == Init /\ [][NextConc]_vars

\* shouldContinue on its own, on any log.
InitResolver ==
    /\ Idle
    /\ \E log \in ProbeLogs, n \in 0..MaxProbeLen :
          probe = [s |-> [messages |-> log, llmCalls |-> n], dest |-> <<>>]

NextResolver == Resolve

SpecResolver == InitResolver /\ [][NextResolver]_vars

\* ------------------------------------------------------------------ claims

\* Position of the last Assistant message of a log, 0 when there is none.
LastAIIndex(messages) ==
    IF \E k \in 1..Len(messages) : IsAIMessage(messages[k])
    THEN CHOOSE k \in 1..Len(messages) :
            /\ IsAIMessage(messages[k])
            /\ \A j \in (k + 1)..Len(messages) : ~IsAIMessage(messages[j])
    ELSE 0

\* The messages after the last Assistant message.
Trailing(messages) ==
    SubSeq(messages, LastAIIndex(messages) + 1, Len(messages))

IsRegistered(toolCall) == toolCall.name \in toolsByName

\* The calls of a batch the registry resolves, in request order.
Resolved(calls) == SelectSeq(calls, IsRegistered)

CallIds(calls) == [k \in 1..Len(calls) |-> calls[k].id]

AnsweredIds(msgs) == [k \in 1..Len(msgs) |-> msgs[k].tool_call_id]

StripIds(msgs) == [k \in 1..Len(msgs) |-> [msgs[k] EXCEPT !.id = NoId]]

\* Invocation i stands right after toolNode returned and its update was
\* merged: the last update has no llmCalls field.
AfterDispatch(i) ==
    /\ pc[i] \in {"llmCall", "llmAwait"}
    /\ state[i].llmCalls > 0
    /\ update[i].llmCalls = <<>>

\* The step of invocation i merges a node's update.
MergeStep(i) ==
    \/ pc[i] = "llmAwait" /\ pc'[i] \in {"toolNode", "done"}
    \/ pc[i] \in {"toolNode", "toolLoop"} /\ pc'[i] = "llmCall"

\* C1: toolNode returns the ToolResults in the request order of the resolved
\* calls; while the loop runs, the results of all resolved calls before the
\* current one are in result, in order, before the current handler starts,
\* and the only handler in flight is the current one.
C1_RequestOrder ==
    \A i \in Invocations :
        /\ pc[i] \in {"toolLoop", "toolAwait"} =>
              /\ idx[i] \in 1..(Len(toolCalls[i]) + 1)
              /\ AnsweredIds(result[i]) =
                    CallIds(Resolved(SubSeq(toolCalls[i], 1, idx[i] - 1)))
              /\ inFlight[i] = IF pc[i] = "toolAwait" THEN {idx[i]} ELSE {}
        /\ AfterDispatch(i) =>
              LET lastAI == state[i].messages[LastAIIndex(state[i].messages)]
              IN  /\ AnsweredIds(update[i].messages) =
                        CallIds(Resolved(lastAI.tool_calls))
                  /\ AnsweredIds(Trailing(state[i].messages)) =
                        CallIds(Resolved(lastAI.tool_calls))

\* A dispatch of three calls, the first not registered, has returned two
\* results.
C1_Witness ==
    /\ AfterDispatch(1)
    /\ Len(update[1].messages) = 2
    /\ Len(state[1].messages[LastAIIndex(state[1].messages)].tool_calls) = 3

\* C2: every step leaves the old log as a prefix of the new one, and a merge
\* puts exactly the update's messages, in their order, after it.
C2_AppendOnly ==
    [][\A i \in Invocations :
          LET old == state[i].messages
              new == state'[i].messages
          IN  /\ Len(new) >= Len(old)
              /\ SubSeq(new, 1, Len(old)) = old
              /\ MergeStep(i) =>
                    StripIds(SubSeq(new, Len(old) + 1, Len(new)))
                       = update'[i].messages
              /\ ~MergeStep(i) /\ pc[i] # "idle" => new = old]_vars

\* A log grown by merges of both nodes.
C2_Witness ==
    /\ pc[1] = "done"
    /\ Len(state[1].messages) >= 5
    /\ \E k \in 1..Len(state[1].messages) : state[1].messages[k].type = "tool"

\* The Assistant messages of a log.
AssistantMessages(messages) == SelectSeq(messages, IsAIMessage)

\* C3: a merge of an update with llmCalls = k adds exactly k to the counter
\* of its invocation and an update without the field leaves it; the counter
\* starts at 0; and whatever the interleaving with the other invocation, the
\* counter of an invocation is the number of llmCall updates merged into its
\* own State.
C3_CounterSum ==
    /\ [][\A i \in Invocations :
             /\ pc[i] = "idle" /\ pc'[i] # "idle" => state'[i].llmCalls = 0
             /\ pc[i] # "idle" =>
                   state'[i].llmCalls = state[i].llmCalls +
                       (IF MergeStep(i) /\ update'[i].llmCalls # <<>>
                        THEN update'[i].llmCalls[1] ELSE 0)]_vars
    /\ [](\A i \in Invocations :
             state[i].llmCalls = Len(AssistantMessages(state[i].messages)))

\* Both invocations have merged llmCall updates, one of them twice, and the
\* other is in the middle of its run.
C3_Witness ==
    /\ state[1].llmCalls = 2
    /\ state[2].llmCalls = 1
    /\ pc[2] = "toolAwait"
    /\ pc[1] = "done"

\* C4: shouldContinue gives toolNode exactly when the last message is an
\* Assistant message with at least one tool call, and END otherwise.
C4_Resolver ==
    probe.dest # <<>> =>
        LET log == probe.s.messages
            continues ==
                /\ Len(log) > 0
                /\ log[Len(log)].type = "ai"
                /\ Len(log[Len(log)].tool_calls) >= 1
        IN  probe.dest[1] = IF continues THEN "toolNode" ELSE END

\* END for an Assistant message without tool calls after a history that
\* holds an Assistant message with tool calls.
C4_Witness ==
    /\ probe.dest = <<END>>
    /\ Len(probe.s.messages) >= 3
    /\ Len(probe.s.messages[1].tool_calls) >= 1
    /\ probe.s.messages[Len(probe.s.messages)].type = "ai"

\* The scenario of C6 read off the log: two Assistant messages, the first
\* with the single call add(3, 4), the second without tool calls.
AddScenario(i) ==
    LET ais == AssistantMessages(state[i].messages)
    IN  /\ Len(ais) = 2
        /\ Len(ais[1].tool_calls) = 1
        /\ ais[1].tool_calls[1].name = "add"
        /\ ais[1].tool_calls[1].args = <<Num(3), Num(4)>>
        /\ Len(ais[2].tool_calls) = 0

\* C6: in the add(3, 4) scenario the invocation has terminated with the log
\* Human, Assistant(tool call), ToolResult "7" for that call's id,
\* Assistant(no tool calls), a counter of 2, and that State returned.
C6_EndToEnd ==
    AddScenario(1) =>
        LET log == state[1].messages
        IN  /\ pc[1] = "done"
            /\ [k \in 1..Len(log) |-> log[k].type]
                  = <<"human", "ai", "tool", "ai">>
            /\ log[3].content = "7"
            /\ log[3].tool_call_id = log[2].tool_calls[1].id
            /\ state[1].llmCalls = 2
            /\ returned[1] = <<state[1]>>

\* The scenario has run to its end.
C6_Witness == AddScenario(1) /\ pc[1] = "done" /\ returned[1] # <<>>

\* How many messages of msgs answer the tool call with this id.
Answers(msgs, id) ==
    Cardinality({k \in 1..Len(msgs) :
                    msgs[k].type = "tool" /\ msgs[k].tool_call_id = id})

C8_FailureCaptured ==
    [][\A i \in Invocations :
          pc[i] = "toolAwait" /\ pc'[i] # "toolAwait" =>
              /\ pc'[i] = "toolLoop"
              /\ Len(result'[i]) = Len(result[i]) + 1
              /\ result'[i][Len(result'[i])].tool_call_id
                    = toolCalls[i][idx[i]].id]_vars

\* C9 as stated: after the dispatch step that follows an Assistant message
\* every tool call of the message has exactly one ToolResult in the log.
C9_EveryCallAnswered ==
    \A i \in Invocations :
        AfterDispatch(i) =>
            LET calls == state[i].messages[LastAIIndex(state[i].messages)]
                            .tool_calls
            IN  \A k \in 1..Len(calls) :
                    Answers(state[i].messages, calls[k].id) = 1

\* C9 amended: no tool call id of the log is answered by two ToolResults;
\* and for every Assistant message whose dispatch step has returned, the log
\* holds exactly one ToolResult for each of its calls whose name is
\* registered and none for a call whose name is not.
C9_RegisteredAnsweredOnce ==
    \A i \in Invocations :
        LET log == state[i].messages
        IN  \A k \in 1..Len(log) :
                IsAIMessage(log[k]) =>
                    \A c \in 1..Len(log[k].tool_calls) :
                        LET n == Answers(log, log[k].tool_calls[c].id)
                        IN  /\ n <= 1
                            /\ k < LastAIIndex(log) \/ AfterDispatch(i) =>
                                  n = IF IsRegistered(log[k].tool_calls[c])
                                      THEN 1 ELSE 0

\* A terminated run whose log holds an Assistant message with two registered
\* calls, both answered.
C9_Witness ==
    /\ pc[1] = "done"
    /\ \E k \in 1..Len(state[1].messages) :
          /\ Len(Resolved(state[1].messages[k].tool_calls)) = 2
          /\ state[1].messages[k + 1].type = "tool"
          /\ state[1].messages[k + 2].type = "tool"

\* C10: when the backend call of llmCall fails (the await is left without a
\* merge), the invocation is failed; a failed invocation stays failed, runs
\* no node, merges nothing and returns nothing.
C10_BackendFailureFatal ==
    [][\A i \in Invocations :
          /\ pc[i] = "llmAwait" /\ pc'[i] # "llmAwait"
                /\ state'[i] = state[i] =>
                pc'[i] = "failed" /\ returned'[i] = <<>>
          /\ pc[i] = "failed" =>
                /\ pc'[i] = "failed"
                /\ state'[i] = state[i]
                /\ returned'[i] = <<>>
                /\ inFlight'[i] = {}]_vars

\* The backend failed at the second llmCall, after a dispatch: the log of
\* three messages is not returned.
C10_Witness ==
    /\ pc[1] = "failed"
    /\ toolCalls[1] = <<>>
    /\ state[1].llmCalls = 1
    /\ Len(state[1].messages) = 3
    /\ returned[1] = <<>>

\* C11: a step that ends a node counts as exactly one node execution and
\* merges that node's update; the destination after llmCall is the one
\* shouldContinue gives on the State after the merge; and whenever a node is
\* scheduled or running, the update of the node before it is already in
\* the State.
C11_PostMergeRouting ==
    /\ [][\A i \in Invocations :
             /\ pc[i] = "llmAwait" /\ pc'[i] \in {"toolNode", "done"} =>
                   pc'[i] = IF shouldContinue(state'[i]) = END
                            THEN "done" ELSE "toolNode"
             /\ pc[i] # "idle" =>
                   StepsTaken(runs'[i]) = StepsTaken(runs[i]) +
                       (IF state'[i] # state[i] \/ update'[i] # update[i]
                        THEN 1 ELSE 0)]_vars
    /\ [](\A i \in Invocations :
             /\ pc[i] \in {"toolNode", "toolLoop", "toolAwait"} =>
                   /\ update[i].llmCalls = <<1>>
                   /\ StripIds(AtLast(state[i].messages)) = update[i].messages
             /\ pc[i] \in {"llmCall", "llmAwait"} /\ runs[i].toolNode > 0 =>
                   /\ update[i].llmCalls = <<>>
                   /\ StripIds(Trailing(state[i].messages))
                         = update[i].messages)

\* The second llmCall has been routed to toolNode.
C11_Witness == pc[1] = "toolNode" /\ runs[1].llmCall = 2

\* The ToolResults of one Assistant message when nothing else runs: one
\* observation per registered call, in request order.
ObservationsAlone(ai) ==
    LET calls == Resolved(ai.tool_calls)
    IN  [k \in 1..Len(calls) |-> Observation(calls[k])]

\* The log of an invocation run alone on these model responses: each
\* response followed by its ToolResults.
RECURSIVE RunAlone(_, _)
RunAlone(log, responses) ==
    IF responses = <<>> THEN log
    ELSE RunAlone(log \o <<Head(responses)>> \o ObservationsAlone(Head(responses)),
                  Tail(responses))

\* Invocation i takes the step.
Acts(i) == pc'[i] # pc[i] \/ idx'[i] # idx[i]

\* C12: a step of one invocation changes nothing of the other; every message
\* and every tool call answered in the log of an invocation was generated
\* in that invocation; and the State a terminated invocation returns is the
\* one the same model responses give when the invocation runs alone.
C12_Isolation ==
    /\ [][\A i, j \in Invocations :
             Acts(i) /\ j # i =>
                 /\ pc'[j] = pc[j] /\ state'[j] = state[j]
                 /\ update'[j] = update[j] /\ returned'[j] = returned[j]
                 /\ toolCalls'[j] = toolCalls[j] /\ idx'[j] = idx[j]
                 /\ result'[j] = result[j] /\ inFlight'[j] = inFlight[j]
                 /\ runs'[j] = runs[j]]_vars
    /\ [](\A i \in Invocations :
             LET log == state[i].messages
             IN  /\ \A k \in 1..Len(log) :
                       /\ log[k].id[1] = i
                       /\ log[k].type = "tool" => log[k].tool_call_id[1] = i
                 /\ pc[i] = "done" =>
                       /\ StripIds(log) =
                             StripIds(RunAlone(MainInput, AssistantMessages(log)))
                       /\ state[i].llmCalls = Len(AssistantMessages(log))
                       /\ returned[i] = <<state[i]>>)

\* Both invocations have terminated, with different logs.
C12_Witness ==
    /\ pc[1] = "done" /\ Len(state[1].messages) = 5
    /\ pc[2] = "done" /\ Len(state[2].messages) = 4

\* toolNode on its own: the executor runs toolNode on a State holding any
\* log, until the node has returned and its update is merged.
InitToolNode ==
    /\ probe = NoProbe
    /\ pc = [i \in Invocations |-> IF i = 1 THEN "toolNode" ELSE "idle"]
    /\ \E log \in ProbeLogs :
          /\ state = [i \in Invocations |->
                         IF i = 1
                         THEN [messages |-> AssignIds(log, 1, 2),
                               llmCalls |-> Len(AssistantMessages(log))]
                         ELSE [messages |-> <<>>, llmCalls |-> 0]]
          /\ uuids = [i \in Invocations |-> IF i = 1 THEN 2 + Len(log) ELSE 0]
    /\ update = [i \in Invocations |-> NoUpdate]
    /\ toolCalls = [i \in Invocations |-> <<>>]
    /\ idx = [i \in Invocations |-> 0]
    /\ result = [i \in Invocations |-> <<>>]
    /\ inFlight = [i \in Invocations |-> {}]
    /\ runs = [i \in Invocations |-> NoRuns]
    /\ returned = [i \in Invocations |-> <<>>]

NextToolNode ==
    \/ ToolNodeStart(1)
    \/ ToolLoop(1)
    \/ ToolReturn(1)

SpecToolNode == InitToolNode /\ [][NextToolNode]_vars

\* The log gives toolNode nothing to dispatch: it is empty, or its last
\* message is not an Assistant message or is one without tool calls.
NothingToDispatch(log) ==
    \/ Len(log) = 0
    \/ log[Len(log)].type # "ai"
    \/ Len(log[Len(log)].tool_calls) = 0

\* C13: on a log that gives nothing to dispatch, every step of toolNode
\* leaves the State as it is and starts no handler, and the update toolNode
\* returns has no messages and no counter.
C13_EmptyUpdate ==
    [][NothingToDispatch(state[1].messages) =>
          /\ state'[1] = state[1]
          /\ inFlight'[1] = {}
          /\ result'[1] = <<>>
          /\ pc'[1] \in {"toolLoop", "llmCall"}
          /\ pc'[1] = "llmCall" =>
                /\ update'[1] = [messages |-> <<>>, llmCalls |-> <<>>]
                /\ runs'[1].toolNode = 1]_vars

\* toolNode has returned on a log that ends with a Human message after an
\* Assistant message with tool calls.
C13_Witness ==
    /\ pc[1] = "llmCall"
    /\ runs[1].toolNode = 1
    /\ Len(state[1].messages) >= 2
    /\ Len(state[1].messages[1].tool_calls) >= 1
    /\ state[1].messages[Len(state[1].messages)].type = "human"

\* toolNode is scheduled or running in invocation i.
InToolNode(p) == p \in {"toolNode", "toolLoop", "toolAwait"}

\* C14: the step that ends an execution of toolNode has appended to the log
\* exactly one ToolResult per registered tool call of the last Assistant
\* message, each with the id of its call, in request order, and has left
\* the call counter as it was.
C14_OnePerResolved ==
    [][\A i \in Invocations :
          InToolNode(pc[i]) /\ ~InToolNode(pc'[i]) =>
              LET old == state[i].messages
                  new == state'[i].messages
                  calls == Resolved(old[LastAIIndex(old)].tool_calls)
              IN  /\ SubSeq(new, 1, Len(old)) = old
                  /\ AnsweredIds(SubSeq(new, Len(old) + 1, Len(new)))
                        = CallIds(calls)
                  /\ state'[i].llmCalls = state[i].llmCalls]_vars

\* C15: the step that completes an execution of llmCall puts exactly one
\* message, an Assistant message, after the old log, adds 1 to the call
\* counter and leaves the rest (toolNode's locals, the handlers in flight)
\* as it was.
C15_LlmCallFrame ==
    [][\A i \in Invocations :
          runs'[i].llmCall # runs[i].llmCall =>
              LET old == state[i].messages
                  new == state'[i].messages
              IN  /\ pc[i] = "llmAwait"
                  /\ runs'[i].llmCall = runs[i].llmCall + 1
                  /\ Len(new) = Len(old) + 1
                  /\ SubSeq(new, 1, Len(old)) = old
                  /\ new[Len(new)].type = "ai"
                  /\ state'[i].llmCalls = state[i].llmCalls + 1
                  /\ toolCalls'[i] = toolCalls[i] /\ idx'[i] = idx[i]
                  /\ result'[i] = result[i] /\ inFlight'[i] = inFlight[i]
                  /\ runs'[i].toolNode = runs[i].toolNode]_vars

\* llmCall has completed twice, the second time after a dispatch.
C15_Witness ==
    /\ runs[1].llmCall = 2
    /\ state[1].llmCalls = 2
    /\ Len(state[1].messages) >= 4

\* C16: at most one handler invocation is in flight, it is the one of the
\* call the loop stands at, and while it is in flight the invocation is at
\* the await of toolNode and nowhere else.
C16_OneHandler ==
    \A i \in Invocations :
        /\ Cardinality(inFlight[i]) <= 1
        /\ inFlight[i] # {} =>
              /\ pc[i] = "toolAwait"
              /\ inFlight[i] = {idx[i]}
              /\ IsRegistered(toolCalls[i][idx[i]])
        /\ pc[i] = "toolAwait" => inFlight[i] # {}

\* The handler of the second call is in flight, the result of the first is
\* in result.
C16_Witness ==
    /\ pc[1] = "toolAwait"
    /\ inFlight[1] = {2}
    /\ Len(result[1]) = 1

\* A backend that answers every reasoning step with an Assistant message
\* carrying one tool call, of a registered or of an unregistered tool.
LoopPool ==
    { [name |-> "add",      args |-> <<Num(3), Num(4)>>],
      [name |-> "subtract", args |-> <<Num(7), Num(1)>>] }

LlmCallReturnTools(i, pool) ==
    /\ pc[i] = "llmAwait"
    /\ \E call \in pool :
          LET response == AIMessage(AssistantText(<<call>>),
                                    WithIds(<<call>>, i, uuids[i]))
          IN  NodeReturns(i, "llmCall", llmCallUpdate(response), uuids[i] + 1)
    /\ UNCHANGED <<toolCalls, idx, result, inFlight, probe>>

NextLoop ==
    \/ Invoke(1)
    \/ LlmCallStart(1)
    \/ LlmCallReturnTools(1, LoopPool)
    \/ ToolNodeStart(1)
    \/ ToolLoop(1)
    \/ ToolReturn(1)

SpecLoop == Init /\ [][NextLoop]_vars

\* C17 as stated: with a backend that always asks for a tool, nothing ever
\* ends the alternation of llmCall and toolNode: the invocation neither
\* terminates nor is it stopped.
C17_NoIterationBound ==
    \A i \in Invocations : pc[i] \notin {"done", "failed"}

\* C17 amended: with a backend that always asks for a tool the invocation
\* never terminates and llmCall and toolNode alternate, but only for
\* RecursionLimit steps: it is failed exactly when that many steps are
\* taken, and never takes more.
C17_BoundedByRecursionLimit ==
    \A i \in Invocations :
        /\ pc[i] # "done"
        /\ returned[i] = <<>>
        /\ runs[i].llmCall \in {runs[i].toolNode, runs[i].toolNode + 1}
        /\ StepsTaken(runs[i]) <= RecursionLimit
        /\ pc[i] = "failed" <=> StepsTaken(runs[i]) = RecursionLimit

\* The recursion limit has stopped the loop.
C17_Witness ==
    /\ pc[1] = "failed"
    /\ StepsTaken(runs[1]) = RecursionLimit
    /\ runs[1].llmCall = runs[1].toolNode + 1

\* main() under the scheduling of the event loop: an awaited promise that
\* settles resumes its node, and the executor runs the node it has routed
\* to, so a step that can be taken is taken.
SpecLive == Init /\ [][Next]_vars /\ WF_vars(Next)

\* llmCall of invocation i returns its response (and does not reject).
LlmCallReturns(i) ==
    /\ pc[i] = "llmAwait"
    /\ runs'[i].llmCall = runs[i].llmCall + 1

\* All but the last message of a log.
Earlier(messages) == SubSeq(messages, 1, Len(messages) - 1)

LastIsAI(i) ==
    /\ Len(state[i].messages) >= 1
    /\ IsAIMessage(state[i].messages[Len(state[i].messages)])

\* C19: toolNode runs only in states whose last message is an Assistant
\* message with at least one tool call; every execution of toolNode is
\* followed by an execution of llmCall, and termination is reached only from
\* llmCall; so neither toolNode nor shouldContinue ever sees a last message
\* that is not an Assistant message.
C19_GraphShape ==
    /\ [](\A i \in Invocations :
            InToolNode(pc[i]) =>
                /\ LastIsAI(i)
                /\ Len(state[i].messages[Len(state[i].messages)].tool_calls) > 0)
    /\ [][\A i \in Invocations :
            /\ InToolNode(pc[i]) /\ ~InToolNode(pc'[i]) => pc'[i] = "llmCall"
            /\ pc[i] # "done" /\ pc'[i] = "done" => pc[i] = "llmAwait"
            /\ LlmCallReturns(i) => LastIsAI(i)']_vars

\* C20: at every step boundary the call counter is the number of completed
\* executions of llmCall of the invocation; at termination it is the number
\* of executions of toolNode plus 1, so at least 1, and the number of
\* Assistant messages appended to the caller's initial log.
C20_CounterCountsLlmCalls ==
    \A i \in Invocations :
        /\ pc[i] # "idle" => state[i].llmCalls = runs[i].llmCall
        /\ pc[i] = "done" =>
              LET final == returned[i][1]
              IN  /\ final.llmCalls = runs[i].toolNode + 1
                  /\ final.llmCalls >= 1
                  /\ final.llmCalls =
                        Len(AssistantMessages(final.messages))
                            - Len(AssistantMessages(MainInput))
                  /\ SubSeq(StripIds(final.messages), 1, Len(MainInput))
                        = StripIds(MainInput)

\* The invocation has terminated after two executions of llmCall and one of
\* toolNode.
C20_Witness ==
    /\ pc[1] = "done"
    /\ state[1].llmCalls = 2
    /\ runs[1].toolNode = 1
    /\ Len(AssistantMessages(state[1].messages)) = 2

====
